---- MODULE Spec2Model ----
(***************************************************************************)
(* Merchant registry back office: the request handlers of the acquirer     *)
(* backend as a state machine over the relational tables they read and     *)
(* write (merchants, checkout_counters, business_licenses and the child    *)
(* tables), with the last HTTP response as the observable output.          *)
(***************************************************************************)
EXTENDS Integers, Sequences, FiniteSets, TLC

\* ---------------------------------------------------------------- bounds
MaxMerchants == 2
MaxCounters == 2
MaxLicenses == 1
MaxBulk == 2
MaxRelated == 1
MaxFailMerchants == 1

\* ---------------------------------------------------------------- domains
\* portal users seeded for the two test tokens; 0 stands for "no user"
Users == {1, 2}
NoUser == 0
Tokens == {"TEST1", "TEST2", "other"}

\* MerchantRegistrationStatus (shared-lib enum, named as in the glossary)
Statuses == {"Draft", "Review", "WaitingAliasGeneration", "Approved", "Rejected"}
Bogus == "Bogus"

\* Number(req.params.id): NaN is represented by -1
NaN == -1
ParamIds == (1..(MaxMerchants + 1)) \cup {NaN}
BulkIds == (0..(MaxMerchants + 1)) \cup {NaN}

\* payinto_alias values: the empty string and two aliases
Aliases == {"", "a", "b"}
\* the descriptive merchant fields (dba_trading_name .. merchant_type)
Data == {"d1", "d2"}
LicenseNumbers == {"L1"}
Files == {"none", "nullPath", "ok"}

\* request bodies of the draft handlers: one body the schema rejects and
\* the bodies it accepts
InvalidBody ==
  [valid |-> FALSE, data |-> "d1", alias |-> "", registration_status |-> Bogus,
   license_number |-> "L1", business_licenses |-> << >>]
Bodies ==
  {InvalidBody} \cup
  [valid : {TRUE}, data : Data, alias : Aliases, registration_status : Statuses,
   license_number : LicenseNumbers, business_licenses : {<< >>, <<"L1">>}]

\* req.body.ids of the bulk handler
BulkLists == UNION {[1..n -> BulkIds] : n \in 0..MaxBulk}

\* query strings of GET /merchants: 0 and "" stand for a parameter that is not
\* supplied; the user id after the last portal user's names no portal user
QueryUserIds == 0..(Cardinality(Users) + 1)
QueryStatuses == {"", "Draft", "Review"}
Queries ==
  [merchantId : 0..(MaxMerchants + 1), payintoId : Aliases, addedBy : QueryUserIds,
   approvedBy : QueryUserIds, registrationStatus : QueryStatuses]
NoQuery ==
  [merchantId |-> 0, payintoId |-> "", addedBy |-> 0, approvedBy |-> 0,
   registrationStatus |-> ""]

\* log levels; the level the logger starts with; req.body.level values that
\* are no level
Levels == {"error", "warn", "info", "http", "verbose", "debug", "silly"}
InitialLevel == "info"
OtherLevels == {"", "ERROR", "Info", "warning", "trace", "fatal", "off"}

\* login: the emails and passwords of the two portal users, an email of no
\* portal user, and values LoginFormSchema rejects
Emails == {"u1@dfsp.io", "u2@dfsp.io", "nobody@dfsp.io", "not-an-email"}
WellFormedEmails == Emails \ {"not-an-email"}
Passwords == {"password-1", "password-2", "short"}
LoginBodies == [email : Emails, password : Passwords]

\* the requests whose database calls interleave with other requests
Procs == {1, 2}

VARIABLES merchants, counters, licenses, related, level, inflight, resp

vars == <<merchants, counters, licenses, related, level, inflight, resp>>

\* ---------------------------------------------------------------- helpers
\* a token check whose last branch falls back to the second test user
TestTokenUserFallback(tok) == IF tok = "TEST1" THEN 1 ELSE 2

\* the dummy-token authentication block of merchant-routes.ts
TestTokenUser(tok) ==
  IF tok = "TEST1" THEN 1 ELSE IF tok = "TEST2" THEN 2 ELSE NoUser

\* middleware/authenticate: the portal user a token identifies, or null
getAuthenticatedPortalUser(tok) ==
  IF tok = "TEST1" THEN 1 ELSE IF tok = "TEST2" THEN 2 ELSE NoUser

MerchantSubmitDataSchemaOk(body) == body.valid

\* an id check that lets every id through
IsNaNNever(id) == FALSE

IsNaN(id) == id = NaN

MerchantExists(id) == id \in 1..Len(merchants)

\* alias !== undefined && alias !== null && alias !== ''
AliasIsSet(alias) == alias # ""

\* an alias lookup that sees only counters not linked to a merchant
AliasExistsUnlinked(alias) ==
  \E i \in DOMAIN counters :
    counters[i].live /\ counters[i].alias_value = alias /\ counters[i].merchant = 0

\* findOne(CheckoutCounterEntity, { where: { alias_value: alias } }) != null
AliasExists(alias) ==
  \E i \in DOMAIN counters : counters[i].live /\ counters[i].alias_value = alias

\* merchant.checkout_counters, in primary-key order
CountersOf(id) ==
  {i \in DOMAIN counters : counters[i].live /\ counters[i].merchant = id}

LicensesOf(id) ==
  {i \in DOMAIN licenses : licenses[i].live /\ licenses[i].merchant = id}

MinOf(S) == CHOOSE x \in S : \A y \in S : x <= y

\* the forms a portal user takes in a response body
\*   "absent" - undefined, null or relation not loaded
\*   "public" - id, name, email, phone_number
\*   "full"   - the loaded entity, password hash included
\* ids: the merchants in data (GET /merchants); count: data of draft-counts;
\* token: the user a login token is signed for
Resp(h, status, msg) ==
  [h |-> h, status |-> status, msg |-> msg,
   created_by |-> "absent", checked_by |-> "absent", qfe |-> FALSE,
   ids |-> {}, count |-> 0, token |-> NoUser]

\* a response sent after a write raised QueryFailedError
RespQ(h, status, msg) == [Resp(h, status, msg) EXCEPT !.qfe = TRUE]

Res(m, c, l, r) == [m |-> m, c |-> c, l |-> l, r |-> r]
Same(r) == Res(merchants, counters, licenses, r)

NewCounter(alias, mid) == [alias_value |-> alias, merchant |-> mid, live |-> TRUE]
NewLicense(num, mid) == [license_number |-> num, merchant |-> mid, live |-> TRUE]
DeletedCounter == [alias_value |-> "", merchant |-> 0, live |-> FALSE]
DeletedLicense == [license_number |-> "L1", merchant |-> 0, live |-> FALSE]

\* the slot a newly inserted row takes: a freed one, or the next new one
FreshCounter(c) ==
  IF \E i \in DOMAIN c : ~c[i].live
    THEN MinOf({i \in DOMAIN c : ~c[i].live})
    ELSE Len(c) + 1

FreshLicense(l) ==
  IF \E i \in DOMAIN l : ~l[i].live
    THEN MinOf({i \in DOMAIN l : ~l[i].live})
    ELSE Len(l) + 1

\* insert or overwrite row i of a table
Put(t, i, row) == IF i = Len(t) + 1 THEN Append(t, row) ELSE [t EXCEPT ![i] = row]

Range(s) == {s[i] : i \in DOMAIN s}

Commit(res) ==
  /\ Len(res.m) <= MaxMerchants
  /\ Len(res.c) <= MaxCounters
  /\ Len(res.l) <= MaxLicenses
  /\ merchants' = res.m
  /\ counters' = res.c
  /\ licenses' = res.l
  /\ resp' = res.r
  /\ UNCHANGED <<related, level, inflight>>

\* a request slot before its request arrives
Idle ==
  [op |-> "idle", pc |-> "idle", tok |-> "other", body |-> InvalidBody,
   ids |-> << >>, cid |-> 0, status |-> 0]

\* ---------------------------------------------------------------- Init
Init ==
  /\ merchants = << >>
  /\ counters = << >>
  /\ licenses = << >>
  /\ related = << >>
  /\ level = InitialLevel
  /\ inflight = [p \in Procs |-> Idle]
  /\ resp = Resp("none", 0, "none")

\* ---------------------------------------------------------------- POST /merchants/draft
\* failAt: which write raises QueryFailedError (0: none)
\*   1 save(checkoutCounter)  2 save(merchant)  3 save(license)  4 save(merchant)
PostDraftResult(tok, body, file, failAt) ==
  LET h == "postMerchantDraft"
      user == TestTokenUser(tok)
  IN
  IF user = NoUser THEN Same(Resp(h, 401, "Unauthorized"))
  ELSE IF ~MerchantSubmitDataSchemaOk(body) THEN Same(Resp(h, 422, "ValidationError"))
  ELSE IF AliasIsSet(body.alias) /\ AliasExists(body.alias)
    THEN Same(Resp(h, 422, "AliasExists"))
  ELSE IF AliasIsSet(body.alias) /\ failAt = 1
    THEN Same(RespQ(h, 500, "QueryFailed"))
  ELSE
    LET mid == Len(merchants) + 1
        cid == FreshCounter(counters)
        c1 == IF AliasIsSet(body.alias)
                THEN Put(counters, cid, NewCounter(body.alias, 0))
                ELSE counters
        m1 == Append(merchants,
                [registration_status |-> body.registration_status,
                 created_by |-> user, checked_by |-> NoUser, data |-> body.data])
        c2 == IF AliasIsSet(body.alias)
                THEN [c1 EXCEPT ![cid].merchant = mid]
                ELSE c1
        l1 == Put(licenses, FreshLicense(licenses), NewLicense(body.license_number, mid))
        ok == Resp(h, 201, "DraftingMerchantSuccessful")
    IN
    IF failAt = 2 THEN Res(merchants, c1, licenses, RespQ(h, 500, "QueryFailed"))
    ELSE IF file # "ok" THEN Res(m1, c2, licenses, ok)
    ELSE IF failAt = 3 THEN Res(m1, c2, licenses, RespQ(h, 500, "QueryFailed"))
    ELSE IF failAt = 4 THEN Res(m1, c2, l1, RespQ(h, 500, "QueryFailed"))
    ELSE Res(m1, c2, l1, ok)

PostDraft(tok, body, file, failAt) == Commit(PostDraftResult(tok, body, file, failAt))

\* ---------------------------------------------------------------- PUT /merchants/:id/registration-status
\* portalUser == null || merchant.created_by.id === portalUser.id
IsCreator(user, id) == merchants[id].created_by = user

PutRegistrationStatusResult(tok, id, rs, failAt) ==
  LET h == "putRegistrationStatus"
      user == TestTokenUser(tok)
  IN
  IF user = NoUser THEN Same(Resp(h, 401, "Unauthorized"))
  ELSE IF IsNaN(id) THEN Same(Resp(h, 422, "InvalidID"))
  ELSE IF rs \notin Statuses THEN Same(Resp(h, 422, "ValidationError"))
  ELSE IF ~MerchantExists(id) THEN Same(Resp(h, 404, "MerchantNotFound"))
  ELSE IF IsCreator(user, id) THEN Same(Resp(h, 401, "SameHubUser"))
  ELSE IF failAt = 1 THEN Same(RespQ(h, 500, "QueryFailed"))
  ELSE Res([merchants EXCEPT ![id].registration_status = rs,
                             ![id].checked_by = user],
           counters, licenses, Resp(h, 200, "StatusUpdated"))

PutRegistrationStatus(tok, id, rs, failAt) ==
  Commit(PutRegistrationStatusResult(tok, id, rs, failAt))

\* ---------------------------------------------------------------- PUT /merchants/draft/:id/update
\* merchant.created_by.id !== portalUser.id
NotDraftedBy(user, id) == merchants[id].created_by # user

\* failAt: 1 save(checkoutCounter)  2 delete(BusinessLicenseEntity)
\*         3 licenseRepository.save  4 merchantRepository.save
PutDraftUpdateResult(tok, id, body, failAt) ==
  LET h == "putDraftUpdate"
      user == TestTokenUser(tok)
  IN
  IF user = NoUser THEN Same(Resp(h, 401, "Unauthorized"))
  ELSE IF ~MerchantSubmitDataSchemaOk(body) THEN Same(Resp(h, 422, "ValidationError"))
  ELSE IF IsNaN(id) THEN Same(Resp(h, 422, "InvalidID"))
  ELSE IF body.registration_status \notin Statuses
    THEN Same(Resp(h, 422, "ValidationError"))
  ELSE IF ~MerchantExists(id) THEN Same(Resp(h, 404, "MerchantNotFound"))
  ELSE IF NotDraftedBy(user, id) THEN Same(Resp(h, 401, "OnlySameDraftedUser"))
  ELSE
    LET own == CountersOf(id)
        c1 == IF ~AliasIsSet(body.alias) THEN counters
              ELSE IF own # {}
                THEN [counters EXCEPT ![MinOf(own)].alias_value = body.alias]
                ELSE Put(counters, FreshCounter(counters), NewCounter(body.alias, id))
        l1 == [i \in DOMAIN licenses |->
                 IF licenses[i].live /\ licenses[i].merchant = id
                   THEN DeletedLicense ELSE licenses[i]]
        new == body.business_licenses
        \* new license rows are saved without a merchant
        l2 == IF new = << >> THEN l1
              ELSE Put(l1, FreshLicense(l1), NewLicense(new[1], 0))
        \* merchantRepository.save links the new rows to the merchant
        l3 == IF new = << >> THEN l1
              ELSE Put(l1, FreshLicense(l1), NewLicense(new[1], id))
        m1 == [merchants EXCEPT ![id].data = body.data,
                                ![id].registration_status = body.registration_status]
    IN
    IF AliasIsSet(body.alias) /\ own = {} /\ AliasExists(body.alias)
      THEN Same(Resp(h, 422, "AliasExists"))
    ELSE IF AliasIsSet(body.alias) /\ failAt = 1
      THEN Same(RespQ(h, 500, "Error"))
    ELSE IF failAt = 2 THEN Res(merchants, c1, licenses, RespQ(h, 500, "Error"))
    ELSE IF new # << >> /\ failAt = 3 THEN Res(merchants, c1, l1, RespQ(h, 500, "Error"))
    ELSE IF failAt = 4 THEN Res(merchants, c1, l2, RespQ(h, 500, "QueryFailed"))
    ELSE Res(m1, c1, l3, Resp(h, 200, "StatusUpdated"))

PutDraftUpdate(tok, id, body, failAt) == Commit(PutDraftUpdateResult(tok, id, body, failAt))

\* ---------------------------------------------------------------- PUT /merchants/:id/draft
\* a draft check that lets every merchant through
NotInDraftNever(id) == FALSE

\* merchant.registration_status !== MerchantRegistrationStatus.DRAFT
NotInDraft(id) == merchants[id].registration_status # "Draft"

\* failAt: 1 save(checkoutCounter)  2 merchantRepository.save
\*         3 licenseRepository.save  4 merchantRepository.save
PutMerchantDraftResult(tok, id, body, file, failAt) ==
  LET h == "putMerchantDraft"
      user == TestTokenUser(tok)
  IN
  IF user = NoUser THEN Same(Resp(h, 401, "Unauthorized"))
  ELSE IF ~MerchantSubmitDataSchemaOk(body) THEN Same(Resp(h, 422, "ValidationError"))
  ELSE IF IsNaN(id) THEN Same(Resp(h, 422, "InvalidID"))
  ELSE IF ~MerchantExists(id) THEN Same(Resp(h, 422, "MerchantIdDoesNotExist"))
  ELSE IF NotInDraft(id) THEN Same(Resp(h, 422, "NotInDraftStatus"))
  ELSE
    LET own == CountersOf(id)
        existing == Cardinality(own) = 1
        cid == IF existing THEN MinOf(own) ELSE FreshCounter(counters)
        \* checkoutCounter?.alias_value !== alias (undefined for a new entity)
        differs == ~existing \/ counters[cid].alias_value # body.alias
        c1 == IF differs
                THEN Put(counters, cid,
                         NewCounter(body.alias, IF existing THEN id ELSE 0))
                ELSE counters
        m1 == [merchants EXCEPT ![id].data = body.data,
                                ![id].registration_status = body.registration_status,
                                ![id].created_by = user]
        \* merchant.checkout_counters = [checkoutCounter], saved with the merchant
        c2 == [i \in DOMAIN c1 |->
                 IF i = cid THEN [c1[i] EXCEPT !.merchant = id]
                 ELSE IF c1[i].live /\ c1[i].merchant = id
                   THEN [c1[i] EXCEPT !.merchant = 0]
                 ELSE c1[i]]
        \* the catch block: delete(CheckoutCounterEntity, checkoutCounter.id)
        Revert(c) == [i \in DOMAIN c |-> IF i = cid THEN DeletedCounter ELSE c[i]]
        lown == LicensesOf(id)
        lid == IF lown # {} THEN MinOf(lown) ELSE FreshLicense(licenses)
        l1 == Put(licenses, lid, NewLicense(body.license_number, id))
        ok == Resp(h, 201, "UpdatingMerchantDraftSuccessful")
    IN
    IF differs /\ AliasExists(body.alias)
      THEN Same(Resp(h, 422, "AliasExists"))
    ELSE IF differs /\ failAt = 1 THEN Same(RespQ(h, 500, "QueryFailed"))
    ELSE IF failAt = 2
      THEN Res(merchants, Revert(c1), licenses, RespQ(h, 500, "QueryFailed"))
    ELSE IF file # "ok" THEN Res(m1, c2, licenses, ok)
    ELSE IF failAt = 3 THEN Res(m1, Revert(c2), licenses, RespQ(h, 500, "QueryFailed"))
    ELSE IF failAt = 4 THEN Res(m1, Revert(c2), l1, RespQ(h, 500, "QueryFailed"))
    ELSE Res(m1, c2, l1, ok)

PutMerchantDraft(tok, id, body, file, failAt) ==
  Commit(PutMerchantDraftResult(tok, id, body, file, failAt))

\* ---------------------------------------------------------------- PUT /merchants/:id/approve
\* the portal user fields left in the response of putWaitingAliasGeneration:
\* created_by is set to undefined, checked_by stays as loaded
ApproveBodyCheckedBy(id) ==
  IF merchants[id].checked_by = NoUser THEN "absent" ELSE "full"

\* a status check that lets every merchant through
NotInReviewNever(id) == FALSE

\* merchant.registration_status !== MerchantRegistrationStatus.REVIEW
NotInReview(id) == merchants[id].registration_status # "Review"

PutWaitingAliasGenerationResult(tok, id, failAt) ==
  LET h == "putWaitingAliasGeneration"
      user == getAuthenticatedPortalUser(tok)
  IN
  IF user = NoUser THEN Same(Resp(h, 401, "Unauthorized"))
  ELSE IF IsNaN(id) THEN Same(Resp(h, 422, "InvalidID"))
  ELSE IF ~MerchantExists(id) THEN Same(Resp(h, 404, "MerchantNotFound"))
  ELSE IF user = merchants[id].created_by THEN Same(Resp(h, 400, "NotAllowed"))
  ELSE IF NotInReview(id) THEN Same(Resp(h, 401, "OnlyReview"))
  ELSE IF failAt = 1 THEN Same(RespQ(h, 500, "QueryFailed"))
  ELSE Res([merchants EXCEPT ![id].registration_status = "WaitingAliasGeneration"],
           counters, licenses,
           [Resp(h, 200, "StatusUpdated") EXCEPT !.checked_by = ApproveBodyCheckedBy(id)])

PutWaitingAliasGeneration(tok, id, failAt) ==
  Commit(PutWaitingAliasGenerationResult(tok, id, failAt))

\* ---------------------------------------------------------------- PUT /merchants/bulk-approve
\* isNaN(Number(id)) || Number(id) < 1
BadBulkId(id) == IsNaN(id) \/ id < 1

\* count({ id: In(ids), registration_status: REVIEW, created_by: Not(portalUser.id) })
BulkCount(user, ids) ==
  Cardinality({i \in DOMAIN merchants :
                 /\ i \in Range(ids)
                 /\ merchants[i].registration_status = "Review"
                 /\ merchants[i].created_by # user})

PutBulkResult(tok, ids, failAt) ==
  LET h == "putBulkWaitingAliasGeneration"
      user == getAuthenticatedPortalUser(tok)
  IN
  IF user = NoUser THEN Same(Resp(h, 401, "Unauthorized"))
  ELSE IF \E k \in DOMAIN ids : BadBulkId(ids[k]) THEN Same(Resp(h, 422, "InvalidID"))
  ELSE IF BulkCount(user, ids) # Len(ids) THEN Same(Resp(h, 422, "NotAllReview"))
  ELSE IF failAt = 1 THEN Same(RespQ(h, 500, "Error"))
  ELSE Res([i \in DOMAIN merchants |->
              IF i \in Range(ids)
                THEN [merchants[i] EXCEPT !.registration_status = "WaitingAliasGeneration",
                                          !.checked_by = user]
                ELSE merchants[i]],
           counters, licenses, Resp(h, 200, "BulkStatusUpdated"))

PutBulk(tok, ids, failAt) == Commit(PutBulkResult(tok, ids, failAt))

\* ---------------------------------------------------------------- read handlers
OnlyResp(r) ==
  /\ resp' = r
  /\ UNCHANGED <<merchants, counters, licenses, related, level, inflight>>

\* GET /merchants/:id (no authentication)
GetMerchantByIdResult(id) ==
  LET h == "getMerchantById" IN
  IF IsNaN(id) THEN Resp(h, 422, "InvalidID")
  ELSE IF ~MerchantExists(id) THEN Resp(h, 404, "MerchantNotFound")
  ELSE [Resp(h, 200, "OK") EXCEPT
          !.created_by = "public",
          !.checked_by = IF merchants[id].checked_by = NoUser THEN "absent" ELSE "public"]

GetMerchantById(id) == OnlyResp(GetMerchantByIdResult(id))

\* portalUserRepository.findOne({ where: { id } }) != null
PortalUserExists(uid) == uid \in Users

\* the rows checkoutCounterRepository.findOne({ where: { alias_value } }) can find
CountersWithAlias(alias) ==
  {i \in DOMAIN counters : counters[i].live /\ counters[i].alias_value = alias}

\* GET /merchants (getMerchants): the where clause built from the query
\* string; selects created_by.id/name, checked_by.id/name
GetMerchantsResult(tok, q) ==
  LET h == "getMerchants"
      user == getAuthenticatedPortalUser(tok)
      found == CountersWithAlias(q.payintoId)
      byAlias == q.payintoId # "" /\ found # {}
      \* checkoutCounter.merchant.id overwrites whereClause.id
      whereId == IF byAlias THEN counters[MinOf(found)].merchant ELSE q.merchantId
      Selected(i) ==
        /\ whereId > 0 => i = whereId
        /\ PortalUserExists(q.addedBy) => merchants[i].created_by = q.addedBy
        /\ PortalUserExists(q.approvedBy) => merchants[i].checked_by = q.approvedBy
        /\ q.registrationStatus # "" =>
             merchants[i].registration_status = q.registrationStatus
      ids == {i \in DOMAIN merchants : Selected(i)}
  IN
  IF user = NoUser THEN Resp(h, 401, "Unauthorized")
  \* checkoutCounter.merchant is null: the TypeError is caught and answered 500
  ELSE IF byAlias /\ whereId = 0 THEN Resp(h, 500, "Error")
  ELSE [Resp(h, 200, "OK") EXCEPT
          !.ids = ids,
          !.created_by = IF ids = {} THEN "absent" ELSE "public",
          !.checked_by = IF \E i \in ids : merchants[i].checked_by # NoUser
                           THEN "public" ELSE "absent"]

GetMerchants(tok, q) == OnlyResp(GetMerchantsResult(tok, q))

\* a count that takes the drafts of every user
DraftCountsOfEveryone(tok) ==
  LET user == getAuthenticatedPortalUser(tok) IN
  IF user = NoUser THEN Resp("getMerchantDraftCountsByUser", 401, "Unauthorized")
  ELSE [Resp("getMerchantDraftCountsByUser", 200, "OK") EXCEPT
          !.count = Cardinality({i \in DOMAIN merchants :
                                   merchants[i].registration_status = "Draft"})]

\* GET /merchants/draft-counts
GetMerchantDraftCountsByUserResult(tok) ==
  LET h == "getMerchantDraftCountsByUser"
      user == getAuthenticatedPortalUser(tok)
  IN
  IF user = NoUser THEN Resp(h, 401, "Unauthorized")
  ELSE [Resp(h, 200, "OK") EXCEPT
          !.count = Cardinality({i \in DOMAIN merchants :
                                   /\ merchants[i].created_by = user
                                   /\ merchants[i].registration_status = "Draft"})]

GetMerchantDraftCountsByUser(tok) == OnlyResp(GetMerchantDraftCountsByUserResult(tok))

\* GET /dfsps: req.user is set by the authentication middleware
GetDFSPsResult(tok) ==
  LET h == "getDFSPs"
      user == getAuthenticatedPortalUser(tok)
  IN
  IF user = NoUser THEN Resp(h, 401, "Unauthorized") ELSE Resp(h, 200, "OK")

GetDFSPs(tok) == OnlyResp(GetDFSPsResult(tok))

\* ---------------------------------------------------------------- child tables
\* rows of merchant_locations, contact_persons and business_owners
NewRelated(kind, mid) == [kind |-> kind, merchant |-> mid]

OwnersOf(id) ==
  {i \in DOMAIN related : related[i].kind = "owner" /\ related[i].merchant = id}

CommitRelated(rel, r) ==
  /\ Len(rel) <= MaxRelated
  /\ related' = rel
  /\ resp' = r
  /\ UNCHANGED <<merchants, counters, licenses, level, inflight>>

RelRes(rel, r) == [rel |-> rel, r |-> r]

\* an error thrown outside every try block of an async handler: the request
\* is left unanswered (status 0) or answered 500 by the framework
UnhandledStatus == {0, 500}

\* POST /merchants/:id/locations (no authentication); failAt: 1 save(location)
PostLocationResult(id, valid, failAt, unhandled) ==
  LET h == "postLocation" IN
  IF IsNaN(id) THEN RelRes(related, Resp(h, 422, "InvalidID"))
  ELSE IF ~valid THEN RelRes(related, Resp(h, 422, "ValidationError"))
  ELSE IF ~MerchantExists(id) THEN RelRes(related, Resp(h, 404, "MerchantNotFound"))
  ELSE IF failAt = 1 THEN RelRes(related, RespQ(h, unhandled, "Unhandled"))
  ELSE RelRes(Append(related, NewRelated("location", id)),
              Resp(h, 201, "MerchantLocationSaved"))

PostLocation(id, valid, failAt, unhandled) ==
  LET res == PostLocationResult(id, valid, failAt, unhandled)
  IN CommitRelated(res.rel, res.r)

\* POST /merchants/:id/contact-persons; failAt: 1 save(contactPerson)
PostContactPersonResult(id, sameAsOwner, valid, failAt) ==
  LET h == "postContactPerson" IN
  IF IsNaN(id) THEN RelRes(related, Resp(h, 422, "InvalidID"))
  ELSE IF ~MerchantExists(id) THEN RelRes(related, Resp(h, 404, "MerchantNotFound"))
  ELSE IF sameAsOwner /\ OwnersOf(id) = {}
    THEN RelRes(related, Resp(h, 404, "BusinessOwnerNotFound"))
  ELSE IF ~sameAsOwner /\ ~valid THEN RelRes(related, Resp(h, 422, "ValidationError"))
  ELSE IF failAt = 1 THEN RelRes(related, RespQ(h, 422, "QueryFailed"))
  ELSE RelRes(Append(related, NewRelated("contact", id)),
              Resp(h, 201, "ContactPersonSaved"))

PostContactPerson(id, sameAsOwner, valid, failAt) ==
  LET res == PostContactPersonResult(id, sameAsOwner, valid, failAt)
  IN CommitRelated(res.rel, res.r)

\* POST /merchants/:id/business-owners
\* failAt: 1 businessOwnerRepository.save  2 merchantRepository.save
PostBusinessOwnerResult(id, valid, failAt, unhandled) ==
  LET h == "postBusinessOwner" IN
  IF IsNaN(id) THEN RelRes(related, Resp(h, 422, "InvalidID"))
  ELSE IF ~valid THEN RelRes(related, Resp(h, 422, "ValidationError"))
  ELSE IF ~MerchantExists(id) THEN RelRes(related, Resp(h, 404, "MerchantNotFound"))
  ELSE IF failAt = 1 THEN RelRes(related, RespQ(h, unhandled, "Unhandled"))
  ELSE IF failAt = 2
    THEN RelRes(Append(related, NewRelated("owner", 0)), RespQ(h, unhandled, "Unhandled"))
  ELSE RelRes(Append(related, NewRelated("owner", id)),
              Resp(h, 201, "BusinessOwnerSaved"))

PostBusinessOwner(id, valid, failAt, unhandled) ==
  LET res == PostBusinessOwnerResult(id, valid, failAt, unhandled)
  IN CommitRelated(res.rel, res.r)

\* ---------------------------------------------------------------- PUT /config/trace-level
ServiceOnly(lv, r) ==
  /\ level' = lv
  /\ resp' = r
  /\ UNCHANGED <<merchants, counters, licenses, related, inflight>>

\* a level check that lets every value through
IsLevelAlways(lv) == TRUE

\* [...].includes(level)
IsLevel(lv) == lv \in Levels

PutTraceLevelResult(lv) ==
  LET h == "putTraceLevel" IN
  IF IsLevel(lv)
    THEN [level |-> lv, r |-> Resp(h, 200, "Log level set successfully")]
    ELSE [level |-> level, r |-> Resp(h, 400, "Invalid log level: " \o lv)]

PutTraceLevel(lv) ==
  LET res == PutTraceLevelResult(lv) IN ServiceOnly(res.level, res.r)

\* ---------------------------------------------------------------- POST /users/login
\* bcrypt: the stored hash of a password, and the comparison with it
Hash(password) == <<"bcrypt", password>>

\* a comparison that accepts every password
BcryptCompareAlways(password, hash) == TRUE

BcryptCompare(password, hash) == Hash(password) = hash

\* the portal_users table
PortalUsers ==
  [u \in Users |->
     IF u = 1 THEN [email |-> "u1@dfsp.io", password |-> Hash("password-1")]
              ELSE [email |-> "u2@dfsp.io", password |-> Hash("password-2")]]

\* z.string().email(), z.string().min(8)
LoginFormSchemaOk(body) == body.email \in WellFormedEmails /\ Len(body.password) >= 8

PostUserLoginResult(body) ==
  LET h == "postUserLogin"
      found == {u \in Users : PortalUsers[u].email = body.email}
      user == CHOOSE u \in found : TRUE
  IN
  IF ~LoginFormSchemaOk(body) THEN Resp(h, 422, "Invalid credentials")
  ELSE IF found = {} THEN Resp(h, 400, "Invalid credentials")
  ELSE IF ~BcryptCompare(body.password, PortalUsers[user].password)
    THEN Resp(h, 400, "Invalid credentials")
  ELSE [Resp(h, 200, "Login successful") EXCEPT !.token = user]

PostUserLogin(body) == OnlyResp(PostUserLoginResult(body))

\* ---------------------------------------------------------------- GET /health-check
GetHealthCheck == OnlyResp(Resp("getHealthCheck", 200, "OK"))

\* ---------------------------------------------------------------- interleaved requests
\* A handler is a sequence of awaited database calls; between two of them
\* another request's calls may run. POST /merchants/draft and
\* PUT /merchants/bulk-approve are split at their awaits.

\* res.status(...).send(...) of request p
Answer(p, req, r) ==
  /\ inflight' = [inflight EXCEPT ![p] = [req EXCEPT !.pc = "done", !.status = r.status]]
  /\ resp' = r

\* POST /merchants/draft up to the alias lookup
PostDraftCheckAlias(p, tok, body) ==
  /\ inflight[p].op = "idle"
  /\ LET h == "postMerchantDraft"
         user == TestTokenUser(tok)
         req == [Idle EXCEPT !.op = "postDraft", !.tok = tok, !.body = body]
     IN IF user = NoUser THEN Answer(p, req, Resp(h, 401, "Unauthorized"))
        ELSE IF ~MerchantSubmitDataSchemaOk(body)
          THEN Answer(p, req, Resp(h, 422, "ValidationError"))
        ELSE IF AliasIsSet(body.alias) /\ AliasExists(body.alias)
          THEN Answer(p, req, Resp(h, 422, "AliasExists"))
        ELSE /\ inflight' = [inflight EXCEPT ![p] =
                   [req EXCEPT !.pc = IF AliasIsSet(body.alias)
                                        THEN "saveCounter" ELSE "saveMerchant"]]
             /\ UNCHANGED resp
  /\ UNCHANGED <<merchants, counters, licenses, related, level>>

\* AppDataSource.manager.save(checkoutCounter)
PostDraftSaveCounter(p) ==
  /\ inflight[p].op = "postDraft" /\ inflight[p].pc = "saveCounter"
  /\ LET cid == FreshCounter(counters)
     IN /\ cid <= MaxCounters
        /\ counters' = Put(counters, cid, NewCounter(inflight[p].body.alias, 0))
        /\ inflight' = [inflight EXCEPT ![p].pc = "saveMerchant", ![p].cid = cid]
  /\ UNCHANGED <<merchants, licenses, related, level, resp>>

\* merchantRepository.save(merchant), no file submitted, and the response
PostDraftSaveMerchant(p) ==
  /\ inflight[p].op = "postDraft" /\ inflight[p].pc = "saveMerchant"
  /\ Len(merchants) < MaxMerchants
  /\ LET req == inflight[p]
         mid == Len(merchants) + 1
     IN /\ merchants' = Append(merchants,
                           [registration_status |-> req.body.registration_status,
                            created_by |-> TestTokenUser(req.tok),
                            checked_by |-> NoUser, data |-> req.body.data])
        /\ counters' = IF req.cid # 0
                         THEN [counters EXCEPT ![req.cid].merchant = mid]
                         ELSE counters
        /\ Answer(p, req, Resp("postMerchantDraft", 201, "DraftingMerchantSuccessful"))
  /\ UNCHANGED <<licenses, related, level>>

\* PUT /merchants/bulk-approve up to the eligibility count
BulkCheck(p, tok, ids) ==
  /\ inflight[p].op = "idle"
  /\ LET h == "putBulkWaitingAliasGeneration"
         user == getAuthenticatedPortalUser(tok)
         req == [Idle EXCEPT !.op = "bulk", !.tok = tok, !.ids = ids]
     IN IF user = NoUser THEN Answer(p, req, Resp(h, 401, "Unauthorized"))
        ELSE IF \E k \in DOMAIN ids : BadBulkId(ids[k])
          THEN Answer(p, req, Resp(h, 422, "InvalidID"))
        ELSE IF BulkCount(user, ids) # Len(ids)
          THEN Answer(p, req, Resp(h, 422, "NotAllReview"))
        ELSE /\ inflight' = [inflight EXCEPT ![p] = [req EXCEPT !.pc = "update"]]
             /\ UNCHANGED resp
  /\ UNCHANGED <<merchants, counters, licenses, related, level>>

\* the bulk update .whereInIds(ids) and the response
BulkUpdate(p) ==
  /\ inflight[p].op = "bulk" /\ inflight[p].pc = "update"
  /\ LET req == inflight[p]
     IN /\ merchants' =
             [i \in DOMAIN merchants |->
                IF i \in Range(req.ids)
                  THEN [merchants[i] EXCEPT
                          !.registration_status = "WaitingAliasGeneration",
                          !.checked_by = getAuthenticatedPortalUser(req.tok)]
                  ELSE merchants[i]]
        /\ Answer(p, req, Resp("putBulkWaitingAliasGeneration", 200, "BulkStatusUpdated"))
  /\ UNCHANGED <<counters, licenses, related, level>>

\* ---------------------------------------------------------------- specifications
\* bodies that carry no alias and no license: the workflow fields only
WorkflowBodies ==
  {b \in Bodies : b.data = "d1" /\ b.alias = "" /\ b.business_licenses = << >>}

\* Spec: the registration workflow over MaxMerchants merchants
Next ==
  \/ \E tok \in Tokens, body \in WorkflowBodies : PostDraft(tok, body, "none", 0)
  \/ \E tok \in Tokens, id \in ParamIds, rs \in Statuses \cup {Bogus} :
       PutRegistrationStatus(tok, id, rs, 0)
  \/ \E tok \in Tokens, id \in ParamIds, body \in WorkflowBodies :
       PutDraftUpdate(tok, id, body, 0)
  \/ \E tok \in Tokens, id \in ParamIds, body \in WorkflowBodies :
       PutMerchantDraft(tok, id, body, "none", 0)
  \/ \E tok \in Tokens, id \in ParamIds : PutWaitingAliasGeneration(tok, id, 0)
  \/ \E tok \in Tokens, ids \in BulkLists : PutBulk(tok, ids, 0)
  \/ \E id \in ParamIds : GetMerchantById(id)
  \/ \E tok \in Tokens : GetMerchants(tok, NoQuery)
  \/ \E tok \in Tokens : GetMerchantDraftCountsByUser(tok)
  \/ \E tok \in Tokens : GetDFSPs(tok)

Spec == Init /\ [][Next]_vars

\* SpecDraft: the draft handlers of one maker over aliases, checkout counters,
\* licenses and the descriptive fields
DraftTokens == {"TEST1", "other"}
DraftBodies == {b \in Bodies : b.registration_status \in {"Draft", "Review", Bogus}}
CreateBodies == {b \in DraftBodies : b.business_licenses = << >>}
DraftFiles == {"none", "ok"}

NextDraft ==
  \/ \E tok \in DraftTokens, body \in CreateBodies, file \in DraftFiles :
       PostDraft(tok, body, file, 0)
  \/ \E tok \in DraftTokens, id \in ParamIds, body \in DraftBodies :
       PutDraftUpdate(tok, id, body, 0)
  \/ \E tok \in DraftTokens, id \in ParamIds, body \in CreateBodies, file \in DraftFiles :
       PutMerchantDraft(tok, id, body, file, 0)

SpecDraft == Init /\ [][NextDraft]_vars

\* SpecFail: one merchant, its rows and child rows, with every write of the
\* draft and child handlers failing or not
FailIds == {1, 2, NaN}
FailBodies == {b \in CreateBodies : b.data = "d1" /\ b.alias \in {"", "a"}}
FailUpdateBodies == {b \in DraftBodies : b.data = "d1" /\ b.alias \in {"", "a"}}

NextFail ==
  \/ \E tok \in DraftTokens, body \in FailBodies, file \in DraftFiles, failAt \in 0..4 :
       /\ PostDraft(tok, body, file, failAt)
       /\ Len(merchants') <= MaxFailMerchants
  \/ \E id \in FailIds, same \in BOOLEAN, valid \in BOOLEAN, failAt \in 0..1 :
       PostContactPerson(id, same, valid, failAt)
  \/ \E tok \in DraftTokens, id \in FailIds, body \in FailUpdateBodies, failAt \in 0..4 :
       PutDraftUpdate(tok, id, body, failAt)
  \/ \E tok \in DraftTokens, id \in FailIds, body \in FailBodies,
        file \in DraftFiles, failAt \in 0..4 :
       PutMerchantDraft(tok, id, body, file, failAt)
  \/ \E id \in FailIds, valid \in BOOLEAN, failAt \in 0..1, u \in UnhandledStatus :
       PostLocation(id, valid, failAt, u)
  \/ \E id \in FailIds, valid \in BOOLEAN, failAt \in 0..2, u \in UnhandledStatus :
       PostBusinessOwner(id, valid, failAt, u)

SpecFail == Init /\ [][NextFail]_vars

\* SpecSolo: every request is sent by the one user TEST1; new drafts and
\* PUT /merchants/:id/draft carry the statuses a maker submits
SoloTokens == {"TEST1"}
MakerBodies == {b \in WorkflowBodies : b.registration_status \in {"Draft", "Review"}}

NextSolo ==
  \/ \E tok \in SoloTokens, body \in MakerBodies : PostDraft(tok, body, "none", 0)
  \/ \E tok \in SoloTokens, id \in ParamIds, rs \in Statuses :
       PutRegistrationStatus(tok, id, rs, 0)
  \/ \E tok \in SoloTokens, id \in ParamIds, body \in WorkflowBodies :
       PutDraftUpdate(tok, id, body, 0)
  \/ \E tok \in SoloTokens, id \in ParamIds, body \in MakerBodies :
       PutMerchantDraft(tok, id, body, "none", 0)
  \/ \E tok \in SoloTokens, id \in ParamIds : PutWaitingAliasGeneration(tok, id, 0)
  \/ \E tok \in SoloTokens, ids \in BulkLists : PutBulk(tok, ids, 0)

SpecSolo == Init /\ [][NextSolo]_vars

\* SpecQuery: merchants of two makers with aliases, some sent to Review by
\* the other user, listed with every query string
QueryTokens == {"TEST1", "TEST2"}
QueryBodies == {b \in CreateBodies : b.data = "d1" /\ b.registration_status = "Draft"}

NextQuery ==
  \/ \E tok \in QueryTokens, body \in QueryBodies, failAt \in {0, 2} :
       PostDraft(tok, body, "none", failAt)
  \/ \E tok \in QueryTokens, id \in ParamIds : PutRegistrationStatus(tok, id, "Review", 0)
  \/ \E tok \in DraftTokens, q \in Queries : GetMerchants(tok, q)

SpecQuery == Init /\ [][NextQuery]_vars

\* SpecService: the handlers that do not touch the merchant tables
NextService ==
  \/ \E lv \in Levels \cup OtherLevels : PutTraceLevel(lv)
  \/ \E body \in LoginBodies : PostUserLogin(body)
  \/ \E tok \in Tokens : GetDFSPs(tok)
  \/ GetHealthCheck

SpecService == Init /\ [][NextService]_vars

\* SpecRace: two requests whose database calls interleave, among requests
\* that run alone
RaceBodies ==
  {b \in CreateBodies : /\ b.valid /\ b.data = "d1" /\ b.alias \in {"", "a"}
                        /\ b.registration_status \in {"Draft", "Review"}}
AloneBodies == {b \in RaceBodies : b.alias = ""}
RaceLists == {ids \in BulkLists : \A k \in DOMAIN ids : ids[k] \in 1..MaxMerchants}

NextRace ==
  \/ \E p \in Procs, tok \in QueryTokens, body \in RaceBodies :
       PostDraftCheckAlias(p, tok, body)
  \/ \E p \in Procs : PostDraftSaveCounter(p)
  \/ \E p \in Procs : PostDraftSaveMerchant(p)
  \/ \E p \in Procs, tok \in QueryTokens, ids \in RaceLists : BulkCheck(p, tok, ids)
  \/ \E p \in Procs : BulkUpdate(p)
  \/ \E tok \in QueryTokens, body \in AloneBodies : PostDraft(tok, body, "none", 0)
  \/ \E tok \in QueryTokens, id \in 1..MaxMerchants :
       PutRegistrationStatus(tok, id, "Rejected", 0)

SpecRace == Init /\ [][NextRace]_vars

\* ================================================================ claims
Unchanged(res) ==
  /\ res.m = merchants
  /\ res.c = counters
  /\ res.l = licenses

\* C1: in every reachable state no merchant has checked_by equal to its
\* created_by.
MakerCheckerSeparation ==
  \A i \in DOMAIN merchants : merchants[i].checked_by # merchants[i].created_by

\* the statuses only a checker may give
CheckedStatuses == {"WaitingAliasGeneration", "Approved", "Rejected"}

\* C2: when a single user alone sends every request, no merchant (all of them
\* created by that user) is ever in status WaitingAliasGeneration, Approved or
\* Rejected.
NoSelfApproval ==
  \A i \in DOMAIN merchants : merchants[i].registration_status \notin CheckedStatuses

\* the steps of the workflow
WorkflowSteps ==
  {<<"Draft", "Review">>, <<"Review", "WaitingAliasGeneration">>,
   <<"WaitingAliasGeneration", "Approved">>, <<"WaitingAliasGeneration", "Rejected">>}

\* C3: every change of a merchant's registration_status is one step of the
\* workflow Draft -> Review -> WaitingAliasGeneration -> Approved or Rejected.
WorkflowOrder ==
  [][\A i \in DOMAIN merchants :
       merchants'[i].registration_status # merchants[i].registration_status
         => <<merchants[i].registration_status, merchants'[i].registration_status>>
              \in WorkflowSteps]_vars

Refused(res) == res.r.status \notin {200, 201} /\ Unchanged(res)

\* C4: in every reachable state, a draft update (either handler) sent by an
\* authenticated user who is not the merchant's created_by is refused (no 200 or
\* 201) and leaves merchants, checkout counters and licenses as they are.
OnlyCreatorUpdatesDraft ==
  \A tok \in Tokens, id \in DOMAIN merchants, body \in WorkflowBodies :
    (TestTokenUser(tok) # NoUser /\ merchants[id].created_by # TestTokenUser(tok))
      => /\ Refused(PutDraftUpdateResult(tok, id, body, 0))
         /\ Refused(PutMerchantDraftResult(tok, id, body, "none", 0))

IsAliasOfCounter(alias) ==
  \E i \in DOMAIN counters : counters[i].live /\ counters[i].alias_value = alias

\* C5 (as claimed): in every reachable state, POST /merchants/draft by an
\* authenticated user with a valid body whose payinto_alias equals the
\* alias_value of an existing checkout counter answers 422 and creates nothing.
DuplicateAliasIs422 ==
  \A tok \in DraftTokens \ {"other"}, body \in CreateBodies, file \in DraftFiles :
    (body.valid /\ IsAliasOfCounter(body.alias))
      => LET res == PostDraftResult(tok, body, file, 0)
         IN res.r.status = 422 /\ Unchanged(res)

\* C5 (amended): in every reachable state, POST /merchants/draft by an
\* authenticated user with a valid body whose payinto_alias is not empty and
\* equals the alias_value of an existing checkout counter answers 422 and
\* creates nothing.
DuplicateNonEmptyAliasIs422 ==
  \A tok \in DraftTokens \ {"other"}, body \in CreateBodies, file \in DraftFiles :
    (body.valid /\ body.alias # "" /\ IsAliasOfCounter(body.alias))
      => LET res == PostDraftResult(tok, body, file, 0)
         IN res.r.status = 422 /\ Unchanged(res)

\* C5 witness: a POST was refused for its alias while a counter holds one
DuplicateAliasRefused ==
  /\ resp.h = "postMerchantDraft"
  /\ resp.status = 422
  /\ resp.msg = "AliasExists"
  /\ \E i \in DOMAIN counters : counters[i].live /\ counters[i].alias_value # ""

Unidentified == Tokens \ {"TEST1", "TEST2"}

Is401(res) == res.r.status = 401 /\ Unchanged(res)

Is404(res) == res.r.status = 404 /\ Unchanged(res)

Is404Related(res) == res.r.status = 404 /\ res.rel = related

\* C7: in every reachable state, each handler that addresses one merchant by a
\* numeric id answers 404 when no merchant has that id (the caller authenticated
\* and the body valid) and changes nothing.
MissingMerchantIs404 ==
  \A id \in ParamIds \ {NaN} :
    ~(id \in DOMAIN merchants) =>
      /\ GetMerchantByIdResult(id).status = 404
      /\ \A tok \in Tokens \ Unidentified :
           /\ \A body \in WorkflowBodies :
                body.valid =>
                  /\ Is404(PutDraftUpdateResult(tok, id, body, 0))
                  /\ Is404(PutMerchantDraftResult(tok, id, body, "none", 0))
           /\ \A rs \in Statuses : Is404(PutRegistrationStatusResult(tok, id, rs, 0))
           /\ Is404(PutWaitingAliasGenerationResult(tok, id, 0))
      /\ Is404Related(PostLocationResult(id, TRUE, 0, 0))
      /\ Is404Related(PostContactPersonResult(id, FALSE, TRUE, 0))
      /\ Is404Related(PostBusinessOwnerResult(id, TRUE, 0, 0))

Is422(res) == res.r.status = 422 /\ Unchanged(res)

\* C8: in every reachable state, a request of an authenticated user whose
\* merchant id is not a number, whose registration_status is no member of the
\* enum, or whose bulk id list has an entry that is not a number >= 1 is
\* answered 422 and leaves merchants, checkout counters and licenses as they are.
InvalidRequestIs422 ==
  \A tok \in Tokens \ Unidentified :
    /\ \A id \in ParamIds, rs \in Statuses \cup {Bogus} :
         (id = NaN \/ rs \notin Statuses)
           => Is422(PutRegistrationStatusResult(tok, id, rs, 0))
    /\ \A id \in ParamIds, body \in WorkflowBodies :
         (id = NaN \/ body.registration_status \notin Statuses)
           => Is422(PutDraftUpdateResult(tok, id, body, 0))
    /\ \A body \in WorkflowBodies : Is422(PutMerchantDraftResult(tok, NaN, body, "none", 0))
    /\ Is422(PutWaitingAliasGenerationResult(tok, NaN, 0))
    /\ \A ids \in BulkLists :
         (\E k \in DOMAIN ids : ids[k] = NaN \/ ids[k] < 1)
           => Is422(PutBulkResult(tok, ids, 0))

\* C8 witness: an invalid id or status was refused while a merchant is in Review
InvalidRequestRefused ==
  /\ resp.status = 422
  /\ resp.h \in {"putRegistrationStatus", "putBulkWaitingAliasGeneration"}
  /\ resp.msg \in {"InvalidID", "ValidationError"}
  /\ \E i \in DOMAIN merchants : merchants[i].registration_status = "Review"

\* C9: every response sent after a write raised QueryFailedError has status 500.
QueryFailureIs500 == resp.qfe => resp.status = 500

\* C10: no response body holds a portal user with its password field, neither
\* as created_by nor as checked_by.
NoPasswordInResponse == resp.created_by # "full" /\ resp.checked_by # "full"

\* C11: in every reachable state, PUT /merchants/:id/approve on an existing
\* merchant changes it only when its status is Review and the (authenticated)
\* caller is not its created_by: then the answer is 200 and the merchant's
\* status, and nothing else, becomes WaitingAliasGeneration; in every other
\* case, and when the save fails, all tables are left as they are and the
\* answer is an error status.
ApproveOnlyReviewByOther ==
  \A tok \in Tokens, id \in DOMAIN merchants :
    LET user == getAuthenticatedPortalUser(tok)
        res == PutWaitingAliasGenerationResult(tok, id, 0)
        failed == PutWaitingAliasGenerationResult(tok, id, 1)
    IN /\ IF /\ user # NoUser
             /\ merchants[id].registration_status = "Review"
             /\ merchants[id].created_by # user
            THEN /\ res.r.status = 200
                 /\ res.m = [merchants EXCEPT
                               ![id].registration_status = "WaitingAliasGeneration"]
                 /\ res.c = counters /\ res.l = licenses
            ELSE Unchanged(res) /\ res.r.status >= 400
       /\ Unchanged(failed) /\ failed.r.status >= 400

\* C11 witness: an approve was answered 200 and its merchant now waits for
\* alias generation
ApprovedByOther ==
  /\ resp.h = "putWaitingAliasGeneration"
  /\ resp.status = 200
  /\ \E i \in DOMAIN merchants :
       /\ merchants[i].registration_status = "WaitingAliasGeneration"
       /\ merchants[i].checked_by # merchants[i].created_by

\* C12: in every reachable state, PUT /merchants/bulk-approve by an
\* authenticated caller with a list of ids that are numbers >= 1 answers 422
\* and changes no table when some listed id names no merchant, a merchant not
\* in Review or a merchant created by the caller; otherwise it answers 200,
\* every listed merchant becomes WaitingAliasGeneration with checked_by the
\* caller, and the merchants not listed are unchanged.
BulkAllOrNothing ==
  \A tok \in Tokens \ Unidentified, ids \in BulkLists :
    LET user == getAuthenticatedPortalUser(tok)
        res == PutBulkResult(tok, ids, 0)
        Ineligible(id) ==
          \/ id \notin DOMAIN merchants
          \/ merchants[id].registration_status # "Review"
          \/ merchants[id].created_by = user
    IN (\A k \in DOMAIN ids : ids[k] # NaN /\ ids[k] >= 1) =>
         IF \E k \in DOMAIN ids : Ineligible(ids[k])
           THEN res.r.status = 422 /\ Unchanged(res)
           ELSE /\ res.r.status = 200
                /\ res.c = counters /\ res.l = licenses
                /\ DOMAIN res.m = DOMAIN merchants
                /\ \A i \in DOMAIN merchants :
                     res.m[i] = IF i \in Range(ids)
                                  THEN [merchants[i] EXCEPT
                                          !.registration_status = "WaitingAliasGeneration",
                                          !.checked_by = user]
                                  ELSE merchants[i]

\* C13: in every reachable state, PUT /merchants/:id/draft by an authenticated
\* caller on a merchant whose registration_status is not Draft answers 422 and
\* leaves merchants, checkout counters and licenses as they are.
NonDraftIsNotUpdated ==
  \A tok \in DraftTokens \ {"other"}, id \in DOMAIN merchants,
     body \in CreateBodies, file \in DraftFiles :
    merchants[id].registration_status # "Draft"
      => Is422(PutMerchantDraftResult(tok, id, body, file, 0))

\* C13 witness: a PUT /merchants/:id/draft was refused for the status while
\* the merchant has a checkout counter
NonDraftRefused ==
  /\ resp.h = "putMerchantDraft"
  /\ resp.msg = "NotInDraftStatus"
  /\ \E i \in DOMAIN merchants :
       merchants[i].registration_status # "Draft" /\ CountersOf(i) # {}

\* what a filter of the query string asks of merchant i
MatchesQuery(i, q) ==
  /\ q.merchantId # 0 => i = q.merchantId
  /\ q.payintoId # "" =>
       \E c \in DOMAIN counters :
         /\ counters[c].live
         /\ counters[c].alias_value = q.payintoId
         /\ counters[c].merchant = i
  /\ q.addedBy # 0 => merchants[i].created_by = q.addedBy
  /\ q.approvedBy # 0 => merchants[i].checked_by = q.approvedBy
  /\ q.registrationStatus # "" => merchants[i].registration_status = q.registrationStatus

\* C14: in every reachable state, GET /merchants by an authenticated caller
\* answers 200 with exactly the merchants that satisfy every filter supplied
\* in the query string (merchantId, payintoId, addedBy, approvedBy,
\* registrationStatus).
FiltersAreExact ==
  \A tok \in Tokens \ Unidentified, q \in Queries :
    LET res == GetMerchantsResult(tok, q)
    IN /\ res.status = 200
       /\ res.ids = {i \in DOMAIN merchants : MatchesQuery(i, q)}

\* C15: POST /users/login issues a token only in a 200 response and only for
\* the portal user whose email and password the request carries, and a
\* schema-valid request with an
\* unknown email gets the same response as one with a known email and a wrong
\* password: status 400, message 'Invalid credentials', no token.
LoginRevealsNothing ==
  /\ resp.h = "postUserLogin" => (resp.token # NoUser) = (resp.status = 200)
  /\ \A body \in LoginBodies :
       LET res == PostUserLoginResult(body)
       IN res.token # NoUser =>
            /\ res.token \in Users
            /\ PortalUsers[res.token].email = body.email
            /\ PortalUsers[res.token].password = Hash(body.password)
  /\ \A b1, b2 \in LoginBodies :
       ( /\ LoginFormSchemaOk(b1) /\ LoginFormSchemaOk(b2)
         /\ \A u \in Users : PortalUsers[u].email # b1.email
         /\ \E u \in Users : /\ PortalUsers[u].email = b2.email
                             /\ PortalUsers[u].password # Hash(b2.password) )
       => /\ PostUserLoginResult(b1) = PostUserLoginResult(b2)
          /\ PostUserLoginResult(b1).status = 400
          /\ PostUserLoginResult(b1).msg = "Invalid credentials"
          /\ PostUserLoginResult(b1).token = NoUser

\* C15 witness: a login was refused with 400
LoginRefused ==
  /\ resp.h = "postUserLogin"
  /\ resp.status = 400
  /\ resp.msg = "Invalid credentials"

\* C16: in every reachable state, PUT /config/trace-level with level lv
\* answers 200 and sets the logger level to lv when lv is one of error, warn,
\* info, http, verbose, debug, silly; for every other value it answers 400 and
\* leaves the logger level as it is.
TraceLevelOutcome ==
  \A lv \in Levels \cup OtherLevels :
    LET res == PutTraceLevelResult(lv)
    IN IF lv \in Levels
         THEN res.r.status = 200 /\ res.level = lv
         ELSE res.r.status = 400 /\ res.level = level

\* C16 witness: an invalid level was refused after the level had been changed
TraceLevelRefused ==
  /\ resp.h = "putTraceLevel"
  /\ resp.status = 400
  /\ level # InitialLevel

\* C17: in every reachable state, GET /merchants/draft-counts by an
\* authenticated caller answers 200 with the number of merchants whose
\* created_by is the caller and whose registration_status is Draft: of all
\* merchants, those drafted by other users and the caller's merchants in
\* other statuses are not counted.
DraftCountIsOwnDrafts ==
  \A tok \in Tokens \ Unidentified :
    LET res == GetMerchantDraftCountsByUserResult(tok)
        user == getAuthenticatedPortalUser(tok)
        Own(st) == {i \in DOMAIN merchants :
                     merchants[i].created_by = user /\ (merchants[i].registration_status = "Draft") = st}
        Others == {i \in DOMAIN merchants : merchants[i].created_by # user}
    IN /\ res.status = 200
       /\ res.count = Cardinality(DOMAIN merchants) - Cardinality(Own(FALSE))
                        - Cardinality(Others)

\* C17 witness: a count of 1 was returned while another merchant is the draft
\* of someone else
DraftCountedOnce ==
  /\ resp.h = "getMerchantDraftCountsByUser"
  /\ resp.status = 200
  /\ resp.count = 1
  /\ Cardinality({i \in DOMAIN merchants : merchants[i].registration_status = "Draft"}) = 2

\* C18: in every reachable state, a PUT /merchants/:id/draft whose merchant or
\* license save fails and that answers 500 leaves every checkout counter the
\* merchant had before the request in place, with its alias.
RevertKeepsOldCounter ==
  \A tok \in DraftTokens \ {"other"}, id \in DOMAIN merchants, body \in FailBodies,
     file \in DraftFiles, failAt \in 2..4 :
    LET res == PutMerchantDraftResult(tok, id, body, file, failAt)
    IN res.r.status = 500 =>
         \A c \in CountersOf(id) :
           /\ c \in DOMAIN res.c
           /\ res.c[c] = counters[c]

\* C19: when two POST /merchants/draft requests with the same non-empty
\* payinto_alias have both been answered, they were not both accepted and at
\* most one checkout counter has that alias.
OneWinnerPerAlias ==
  \A p, q \in Procs :
    ( /\ p # q
      /\ inflight[p].op = "postDraft" /\ inflight[p].pc = "done"
      /\ inflight[q].op = "postDraft" /\ inflight[q].pc = "done"
      /\ inflight[p].body.alias # ""
      /\ inflight[p].body.alias = inflight[q].body.alias )
    => /\ ~(inflight[p].status = 201 /\ inflight[q].status = 201)
       /\ Cardinality(CountersWithAlias(inflight[p].body.alias)) <= 1

FailedPostDraftChangesNothing ==
  \A tok \in DraftTokens, body \in FailBodies, file \in DraftFiles, failAt \in 0..4 :
    LET res == PostDraftResult(tok, body, file, failAt)
    IN res.r.status \in {422, 500} => Unchanged(res)

====
